---- MODULE Spec2Model ----
(***************************************************************************)
(* Model of the UPnP IGD control-protocol client in src/src/gateway.rs:    *)
(* the response parser, the per-action error mapping and the any-port      *)
(* allocation state machine.  One call runs at a time against a router     *)
(* stub that answers every request with an arbitrary transport outcome.    *)
(* A step of the model is the code between two network exchanges.          *)
(***************************************************************************)
EXTENDS Integers, Sequences, FiniteSets, TLC

VARIABLES gateway,      \* the Gateway value (addr, control_url)
          pc,           \* "idle" | "await" (a request is outstanding) | "done"
          op,           \* the public operation being executed
          args,         \* its parameters
          stage,        \* which request of the operation is outstanding / was last
          req,          \* the last request handed to the transport
          attempt,      \* iterations of the fallback loop started so far
          sent,         \* transport stub: requests seen, per action name
          external_ip,  \* get_any_address: the address obtained by the IP step
          response,     \* the transport's outcome for the last answered request
          last,         \* result of perform_request for the last answered request
          result        \* the value the call returned

vars == <<gateway, pc, op, args, stage, req, attempt, sent, external_ip, response, last, result>>

----------------------------------------------------------------------------
(* Bounds of the model *)

\* how many candidate ports at the low end of the range the port source can draw
MaxSample == 1

\* program constants
PortLow == 32768
PortHigh == 65535
MaxAttempts == 20
U16Max == 65535

----------------------------------------------------------------------------
(* Text: a string is a sequence of one-character strings; an element       *)
(* without text (xmltree text = None) has the empty sequence.              *)

DigitChars == <<"0", "1", "2", "3", "4", "5", "6", "7", "8", "9">>

IsDigit(c) == \E i \in 1..10 : DigitChars[i] = c

DigitVal(c) == (CHOOSE i \in 1..10 : DigitChars[i] = c) - 1

None == -1

\* str::parse::<u16>: checked multiply-and-add over the digits
RECURSIVE ParseDigits(_, _)
ParseDigits(t, acc) ==
    IF t = <<>> THEN acc
    ELSE IF ~IsDigit(Head(t)) THEN None
    ELSE IF acc * 10 > U16Max THEN None
    ELSE IF acc * 10 + DigitVal(Head(t)) > U16Max THEN None
    ELSE ParseDigits(Tail(t), acc * 10 + DigitVal(Head(t)))

\* a parse that wraps around instead of failing on overflow
RECURSIVE ParseDigitsWrapping(_, _)
ParseDigitsWrapping(t, acc) ==
    IF t = <<>> THEN acc
    ELSE IF ~IsDigit(Head(t)) THEN None
    ELSE ParseDigitsWrapping(Tail(t), (acc * 10 + DigitVal(Head(t))) % (U16Max + 1))

ParseU16Wrapping(t) ==
    IF t = <<>> THEN None
    ELSE IF Head(t) = "+"
         THEN IF Tail(t) = <<>> THEN None ELSE ParseDigitsWrapping(Tail(t), 0)
         ELSE ParseDigitsWrapping(t, 0)

ParseU16(t) ==
    IF t = <<>> THEN None
    ELSE IF Head(t) = "+"
         THEN IF Tail(t) = <<>> THEN None ELSE ParseDigits(Tail(t), 0)
         ELSE ParseDigits(t, 0)

\* the dot-separated fields of an address text
RECURSIVE SplitDots(_, _)
SplitDots(t, cur) ==
    IF t = <<>> THEN <<cur>>
    ELSE IF Head(t) = "." THEN <<cur>> \o SplitDots(Tail(t), <<>>)
    ELSE SplitDots(Tail(t), Append(cur, Head(t)))

ParseOctet(f) ==
    IF Len(f) = 0 \/ Len(f) > 3 THEN None
    ELSE IF \E i \in 1..Len(f) : ~IsDigit(f[i]) THEN None
    ELSE IF ParseDigits(f, 0) > 255 THEN None
    ELSE ParseDigits(f, 0)

NoIp == <<>>

\* str::parse::<Ipv4Addr>: four octets, or nothing
ParseIpv4(t) ==
    LET fs == SplitDots(t, <<>>) IN
    IF Len(fs) # 4 THEN NoIp
    ELSE IF \E i \in 1..4 : ParseOctet(fs[i]) = None THEN NoIp
    ELSE [i \in 1..4 |-> ParseOctet(fs[i])]

----------------------------------------------------------------------------
(* Response documents.  A response text is described by what the XML       *)
(* parser makes of it: whether it parses, whether the root has a Body,     *)
(* the success element in the Body (name, one text child), and how much of *)
(* the Body/Fault/detail/UPnPError/{errorCode,errorDescription} path       *)
(* exists.                                                                 *)

OkNames == {"GetExternalIPAddressResponse", "AddAnyPortMappingResponse",
            "AddPortMappingResponse", "DeletePortMappingResponse"}

Doc(parses, hasBody, okName, okChild, okText, fault, hasCode, codeText, hasDesc, descText) ==
    [parses |-> parses, hasBody |-> hasBody,
     okName |-> okName, okChild |-> okChild, okText |-> okText,
     fault |-> fault, hasCode |-> hasCode, codeText |-> codeText,
     hasDesc |-> hasDesc, descText |-> descText]

NoDoc == Doc(FALSE, FALSE, "-", "", <<>>, "none", FALSE, <<>>, FALSE, <<>>)

T401 == <<"4", "0", "1">>
T501 == <<"5", "0", "1">>
T605 == <<"6", "0", "5">>
T606 == <<"6", "0", "6">>
T714 == <<"7", "1", "4">>
T718 == <<"7", "1", "8">>
T724 == <<"7", "2", "4">>
T725 == <<"7", "2", "5">>
T728 == <<"7", "2", "8">>

\* errorCode texts the router stub can send
CodeTexts == {T401, T501, T605, T606, T714, T718, T724, T725, T728,
              <<"0", "6", "0", "6">>, <<"+", "6", "0", "6">>,
              <<"6", "5", "5", "3", "5">>, <<"6", "5", "5", "3", "6">>,
              <<"6", "6", "1", "4", "2">>, <<"6", "o", "6">>, <<" ", "6", "0", "6">>,
              <<"-", "1">>, <<>>}

DescTexts == {<<"d">>, <<"e", "r", "r">>, <<>>}

IpTexts == {<<"1", ".", "2", ".", "3", ".", "4">>, <<"1", ".", "2", ".", "3">>,
            <<"2", "5", "6", ".", "1", ".", "1", ".", "1">>,
            <<"1", "0", ".", "0", ".", "0", ".", "2", "5", "5">>, <<>>}

PortTexts == {<<"4", "0", "0", "0", "0">>, <<"8", "0">>, <<"6", "5", "5", "3", "6">>,
              <<"0">>, <<"x">>, <<>>}

\* success elements: name, and at most one text child
OkParts ==
    {<<n, "", <<>>>> : n \in OkNames}
    \cup {<<"GetExternalIPAddressResponse", "NewExternalIPAddress", t>> : t \in IpTexts}
    \cup {<<"AddAnyPortMappingResponse", "NewReservedPort", t>> : t \in PortTexts}
    \cup {<<"AddAnyPortMappingResponse", "NewExternalIPAddress", <<"8", "0">>>>,
          <<"GetExternalIPAddressResponse", "NewReservedPort",
            <<"1", ".", "2", ".", "3", ".", "4">>>>,
          <<"AddPortMappingResponse", "NewReservedPort", <<"8", "0">>>>}

\* fault parts: depth of the path, errorCode (present, text), errorDescription
FaultParts ==
    {<<"Fault", FALSE, <<>>, FALSE, <<>>>>, <<"detail", FALSE, <<>>, FALSE, <<>>>>,
     <<"UPnPError", FALSE, <<>>, FALSE, <<>>>>}
    \cup {<<"UPnPError", TRUE, c, FALSE, <<>>>> : c \in {T606, T718}}
    \cup {<<"UPnPError", FALSE, <<>>, TRUE, d>> : d \in {<<"d">>}}
    \cup {<<"UPnPError", TRUE, c, TRUE, <<"d">>>> : c \in CodeTexts}
    \cup {<<"UPnPError", TRUE, c, TRUE, d>> : c \in {T501, T606}, d \in DescTexts}

WellFormedFault(c) == <<"UPnPError", TRUE, c, TRUE, <<"d">>>>

\* documents whose Body has a success element and a Fault
BothParts ==
    {<<o, f>> : o \in {<<n, "", <<>>>> : n \in OkNames},
                f \in {<<"Fault", FALSE, <<>>, FALSE, <<>>>>, WellFormedFault(T606)}}
    \cup {<< <<"AddPortMappingResponse", "", <<>>>>, WellFormedFault(T718)>>,
          << <<"AddPortMappingResponse", "", <<>>>>, WellFormedFault(T724)>>,
          << <<"AddAnyPortMappingResponse", "NewReservedPort", <<"4", "0", "0", "0", "0">>>>, WellFormedFault(T401)>>,
          << <<"AddAnyPortMappingResponse", "NewReservedPort", <<"x">>>>, WellFormedFault(T728)>>,
          << <<"GetExternalIPAddressResponse", "NewExternalIPAddress",
               <<"1", ".", "2", ".", "3", ".", "4">>>>, WellFormedFault(T606)>>,
          << <<"GetExternalIPAddressResponse", "NewExternalIPAddress",
               <<"1", ".", "2", ".", "3", ".", "4">>>>, WellFormedFault(<<"6", "o", "6">>)>>}

Docs ==
    {Doc(FALSE, FALSE, "", "", <<>>, "none", FALSE, <<>>, FALSE, <<>>),
     Doc(TRUE, FALSE, "", "", <<>>, "none", FALSE, <<>>, FALSE, <<>>),
     Doc(TRUE, TRUE, "", "", <<>>, "none", FALSE, <<>>, FALSE, <<>>)}
    \cup {Doc(TRUE, TRUE, o[1], o[2], o[3], "none", FALSE, <<>>, FALSE, <<>>) : o \in OkParts}
    \cup {Doc(TRUE, TRUE, "", "", <<>>, f[1], f[2], f[3], f[4], f[5]) : f \in FaultParts}
    \cup {Doc(TRUE, TRUE, b[1][1], b[1][2], b[1][3], b[2][1], b[2][2], b[2][3], b[2][4], b[2][5]) :
              b \in BothParts}

\* what the transport hands back: a response text or a transport-level error
TransportErrors == {"HttpError", "IoError"}

NoOutcome == [ok |-> FALSE, text |-> NoDoc, error |-> ""]

TransportOutcomes ==
    {[ok |-> TRUE, text |-> d, error |-> ""] : d \in Docs}
    \cup {[ok |-> FALSE, text |-> NoDoc, error |-> e] : e \in TransportErrors}

----------------------------------------------------------------------------
(* RequestError and the result of perform_request *)

NoElem == [name |-> "", child |-> "", ctext |-> <<>>]

ReqOk(text, elem) ==
    [kind |-> "Ok", code |-> None, desc |-> <<>>, text |-> text, elem |-> elem]

ErrorCode(code, desc) ==
    [kind |-> "ErrorCode", code |-> code, desc |-> desc, text |-> NoDoc, elem |-> NoElem]

InvalidResponse(text) ==
    [kind |-> "InvalidResponse", code |-> None, desc |-> <<>>, text |-> text, elem |-> NoElem]

TransportError(e) ==
    [kind |-> e, code |-> None, desc |-> <<>>, text |-> NoDoc, elem |-> NoElem]

NoRequestError == [kind |-> "", code |-> None, desc |-> <<>>, text |-> NoDoc, elem |-> NoElem]

IsFault(r, c) == r.kind = "ErrorCode" /\ r.code = c

\* the success element taken out of the Body
OkElement(text) == [name |-> text.okName, child |-> text.okChild, ctext |-> text.okText]

\* Element::get_child(name).and_then(|e| e.text.as_ref()): the text, <<>> for none
ChildText(elem, name) == IF elem.child = name THEN elem.ctext ELSE <<>>

\* the fault part of parse_response (lines 313-331)
parse_fault(text) ==
    IF text.fault # "UPnPError" THEN InvalidResponse(text)
    ELSE IF ~(text.hasCode /\ text.hasDesc) THEN InvalidResponse(text)
    ELSE IF text.codeText = <<>> \/ text.descText = <<>> THEN InvalidResponse(text)
    ELSE IF ParseU16(text.codeText) = None THEN InvalidResponse(text)
    ELSE ErrorCode(ParseU16(text.codeText), text.descText)

\* a parser that looks for a fault before it looks for the success element
parse_response_fault_first(text, ok) ==
    IF ~text.parses THEN InvalidResponse(text)
    ELSE IF ~text.hasBody THEN InvalidResponse(text)
    ELSE IF parse_fault(text).kind = "ErrorCode" THEN parse_fault(text)
    ELSE IF text.okName = ok THEN ReqOk(text, OkElement(text))
    ELSE parse_fault(text)

parse_response(text, ok) ==
    IF ~text.parses THEN InvalidResponse(text)
    ELSE IF ~text.hasBody THEN InvalidResponse(text)
    ELSE IF text.okName = ok THEN ReqOk(text, OkElement(text))
    ELSE parse_fault(text)

\* soap::send then parse_response; a transport error is converted by try!
perform_request(outcome, ok) ==
    IF ~outcome.ok THEN TransportError(outcome.error)
    ELSE parse_response(outcome.text, ok)

\* an async pipeline that parses with the success name lost
perform_request_async_no_name(outcome, ok) ==
    IF ~outcome.ok THEN TransportError(outcome.error)
    ELSE parse_response(outcome.text, "")

\* the async pipeline: map_err(RequestError::from).and_then(parse_response)
perform_request_async(outcome, ok) ==
    IF ~outcome.ok THEN TransportError(outcome.error)
    ELSE parse_response(outcome.text, ok)

----------------------------------------------------------------------------
(* Parameters of the calls *)

PortMappingProtocol == {"PortMappingProtocol::TCP", "PortMappingProtocol::UDP"}

\* impl fmt::Display for PortMappingProtocol
fmt_protocol(p) == IF p = "PortMappingProtocol::TCP" THEN <<"T", "C", "P">> ELSE <<"U", "D", "P">>

\* Display of an unsigned integer
RECURSIVE FormatNum(_)
FormatNum(n) ==
    IF n < 10 THEN <<DigitChars[n + 1]>>
    ELSE FormatNum(n \div 10) \o <<DigitChars[(n % 10) + 1]>>

\* Display of an Ipv4Addr
FormatIp(ip) ==
    FormatNum(ip[1]) \o <<".">> \o FormatNum(ip[2]) \o <<".">>
        \o FormatNum(ip[3]) \o <<".">> \o FormatNum(ip[4])

\* impl fmt::Display for Gateway: the control URL the requests are posted to
fmt_gateway(g) ==
    <<"http://">> \o FormatIp(g.addr.ip) \o <<":">> \o FormatNum(g.addr.port) \o <<g.control_url>>

LocalIp == <<192, 168, 0, 2>>

LocalPorts == {0, 5000, PortLow}
ExternalPorts == {0, 80, 5000}
LeaseDurations == {0, 3600}
Descriptions == {<<"d">>, <<"a", "&", "b", "<", "c">>}

\* protocol, lease duration and description of the any-port calls
MappingProfiles == {<<"PortMappingProtocol::TCP", 0, <<"d">>>>,
                    <<"PortMappingProtocol::UDP", 3600, <<"a", "&", "b", "<", "c">>>>}

\* a port source whose range includes its upper end
SamplePortsInclusive ==
    {PortLow + i : i \in 0..(MaxSample - 1)} \cup {PortHigh - 1, PortHigh}

\* the candidate ports the port source draws: Range::new(32768, 65535)
SamplePorts == {p \in {PortLow + i : i \in 0..(MaxSample - 1)} \cup {PortHigh - 1} :
                    PortLow <= p /\ p < PortHigh}

Args(protocol, external_port, local_port, lease_duration, description) ==
    [protocol |-> protocol, external_port |-> external_port,
     local_addr |-> [ip |-> LocalIp, port |-> local_port],
     lease_duration |-> lease_duration, description |-> description]

NoArgs == Args("PortMappingProtocol::TCP", 0, 0, 0, <<>>)

----------------------------------------------------------------------------
(* Requests: the action of the SOAP header, the URL, and the parameter     *)
(* elements of the body in document order, each with the text format!      *)
(* puts into it.                                                           *)

Request(action, params) == [action |-> action, url |-> fmt_gateway(gateway), params |-> params]

NoReq == [action |-> "", url |-> <<>>, params |-> <<>>]

GetExternalIPAddressRequest == Request("GetExternalIPAddress", <<>>)

MappingParams(a, external_port) ==
    << <<"NewProtocol", fmt_protocol(a.protocol)>>,
       <<"NewExternalPort", FormatNum(external_port)>>,
       <<"NewInternalClient", FormatIp(a.local_addr.ip)>>,
       <<"NewInternalPort", FormatNum(a.local_addr.port)>>,
       <<"NewLeaseDuration", FormatNum(a.lease_duration)>>,
       <<"NewPortMappingDescription", a.description>>,
       <<"NewEnabled", <<"1">>>>,
       <<"NewRemoteHost", <<>>>> >>

AddAnyPortMappingRequest(a, external_port) ==
    Request("AddAnyPortMapping", MappingParams(a, external_port))

AddPortMappingRequest(a, external_port) ==
    Request("AddPortMapping", MappingParams(a, external_port))

DeletePortMappingRequest(a) ==
    Request("DeletePortMapping",
            << <<"NewProtocol", fmt_protocol(a.protocol)>>,
               <<"NewExternalPort", FormatNum(a.external_port)>>,
               <<"NewRemoteHost", <<>>>> >>)

\* the text of parameter element name in request r (<<>> if there is none)
ReqParam(r, name) ==
    IF \E i \in 1..Len(r.params) : r.params[i][1] = name
    THEN r.params[CHOOSE i \in 1..Len(r.params) : r.params[i][1] = name][2]
    ELSE <<>>

ActionNames == {"GetExternalIPAddress", "AddAnyPortMapping", "AddPortMapping", "DeletePortMapping"}

ZeroSent == [a \in ActionNames |-> 0]

TotalSent(cnt) ==
    cnt["GetExternalIPAddress"] + cnt["AddAnyPortMapping"]
        + cnt["AddPortMapping"] + cnt["DeletePortMapping"]

----------------------------------------------------------------------------
(* Results of the public operations *)

NoVal == [ip |-> NoIp, port |-> None]

Ok(ip, port) ==
    [tag |-> "Ok", err |-> "", cause |-> NoRequestError, val |-> [ip |-> ip, port |-> port]]

Err(name) == [tag |-> "Err", err |-> name, cause |-> NoRequestError, val |-> NoVal]

ErrRequest(e) == [tag |-> "Err", err |-> "RequestError", cause |-> e, val |-> NoVal]

NoResult == [tag |-> "", err |-> "", cause |-> NoRequestError, val |-> NoVal]

----------------------------------------------------------------------------
(* Per-action classification of a perform_request result *)

\* get_external_ip_async, the closure of lines 77-90
get_external_ip_result(r) ==
    IF r.kind = "Ok"
    THEN IF ParseIpv4(ChildText(r.elem, "NewExternalIPAddress")) # NoIp
         THEN Ok(ParseIpv4(ChildText(r.elem, "NewExternalIPAddress")), None)
         ELSE ErrRequest(InvalidResponse(r.text))
    ELSE IF IsFault(r, 606) THEN Err("ActionNotAuthorized")
    ELSE ErrRequest(r)

\* the success name each request is parsed with
expected_ok(st) ==
    CASE st = "ip" -> "GetExternalIPAddressResponse"
      [] st = "any" -> "AddAnyPortMappingResponse"
      [] st = "remove" -> "DeletePortMappingResponse"
      [] OTHER -> "AddPortMappingResponse"

\* add_port_mapping: the success element is dropped, an error is passed on by try!
add_port_mapping(outcome) ==
    IF perform_request(outcome, expected_ok("add")).kind = "Ok"
    THEN ReqOk(NoDoc, NoElem)
    ELSE perform_request(outcome, expected_ok("add"))

\* add_port without the 725 arm
add_port_result_no_725(r) ==
    IF r.kind = "Ok" THEN Ok(NoIp, None)
    ELSE IF IsFault(r, 605) THEN Err("DescriptionTooLong")
    ELSE IF IsFault(r, 606) THEN Err("ActionNotAuthorized")
    ELSE IF IsFault(r, 718) THEN Err("PortInUse")
    ELSE IF IsFault(r, 724) THEN Err("SamePortValuesRequired")
    ELSE ErrRequest(r)

\* add_port, the match of lines 258-266
add_port_result(r) ==
    IF r.kind = "Ok" THEN Ok(NoIp, None)
    ELSE IF IsFault(r, 605) THEN Err("DescriptionTooLong")
    ELSE IF IsFault(r, 606) THEN Err("ActionNotAuthorized")
    ELSE IF IsFault(r, 718) THEN Err("PortInUse")
    ELSE IF IsFault(r, 724) THEN Err("SamePortValuesRequired")
    ELSE IF IsFault(r, 725) THEN Err("OnlyPermanentLeasesSupported")
    ELSE ErrRequest(r)

\* the two checks in the other order
add_port_check_internal_first(external_port, local_port) ==
    IF local_port = 0 THEN "InternalPortZeroInvalid"
    ELSE IF external_port = 0 THEN "ExternalPortZeroInvalid"
    ELSE ""

\* add_port, the checks of lines 252-257: "" when the request may be sent
add_port_check(external_port, local_port) ==
    IF external_port = 0 THEN "ExternalPortZeroInvalid"
    ELSE IF local_port = 0 THEN "InternalPortZeroInvalid"
    ELSE ""

\* no check of the internal port
add_any_port_check_missing(local_port) == ""

\* add_any_port, the check of lines 145-147
add_any_port_check(local_port) ==
    IF local_port = 0 THEN "InternalPortZeroInvalid" ELSE ""

\* remove_port without the 606 arm
remove_port_result_no_606(r) ==
    IF r.kind = "Ok" THEN Ok(NoIp, None)
    ELSE IF IsFault(r, 714) THEN Err("NoSuchPortMapping")
    ELSE ErrRequest(r)

\* remove_port, the match of lines 285-290
remove_port_result(r) ==
    IF r.kind = "Ok" THEN Ok(NoIp, None)
    ELSE IF IsFault(r, 606) THEN Err("ActionNotAuthorized")
    ELSE IF IsFault(r, 714) THEN Err("NoSuchPortMapping")
    ELSE ErrRequest(r)

\* a fallback that is also entered on fault 501
native_decision_501(r) == IF IsFault(r, 401) \/ IsFault(r, 501) THEN "fallback" ELSE "return"

\* add_any_port, outer match (lines 172-216): does the answer start the fallback?
native_decision(r) == IF IsFault(r, 401) THEN "fallback" ELSE "return"

\* add_any_port, outer match, the arms that return
native_result(r) ==
    IF r.kind = "Ok"
    THEN IF ParseU16(ChildText(r.elem, "NewReservedPort")) # None
         THEN Ok(NoIp, ParseU16(ChildText(r.elem, "NewReservedPort")))
         ELSE ErrRequest(InvalidResponse(r.text))
    ELSE IF IsFault(r, 605) THEN Err("DescriptionTooLong")
    ELSE IF IsFault(r, 606) THEN Err("ActionNotAuthorized")
    ELSE IF IsFault(r, 728) THEN Err("NoPortsAvailable")
    ELSE ErrRequest(r)

\* a loop that also tries another port after an invalid response
loop_decision_retries_invalid(r) ==
    IF IsFault(r, 718) \/ r.kind = "InvalidResponse" THEN "continue"
    ELSE IF IsFault(r, 724) THEN "same_port"
    ELSE "return"

\* a loop that tries another port after fault 725 as well
loop_decision_725_continues(r) ==
    IF IsFault(r, 718) \/ IsFault(r, 725) THEN "continue"
    ELSE IF IsFault(r, 724) THEN "same_port"
    ELSE "return"

\* a loop that treats 724 like 718
loop_decision_724_continues(r) ==
    IF IsFault(r, 718) \/ IsFault(r, 724) THEN "continue" ELSE "return"

\* add_any_port, the loop's match (lines 188-206): continue, same-port retry, or return
loop_decision(r) ==
    IF IsFault(r, 718) THEN "continue"
    ELSE IF IsFault(r, 724) THEN "same_port"
    ELSE "return"

\* a loop that maps 728 as the outer match does
loop_result_728(r, external_port) ==
    IF r.kind = "Ok" THEN Ok(NoIp, external_port)
    ELSE IF IsFault(r, 605) THEN Err("DescriptionTooLong")
    ELSE IF IsFault(r, 606) THEN Err("ActionNotAuthorized")
    ELSE IF IsFault(r, 725) THEN Err("OnlyPermanentLeasesSupported")
    ELSE IF IsFault(r, 728) THEN Err("NoPortsAvailable")
    ELSE ErrRequest(r)

\* add_any_port, the loop's match, the arms that return
loop_result(r, external_port) ==
    IF r.kind = "Ok" THEN Ok(NoIp, external_port)
    ELSE IF IsFault(r, 605) THEN Err("DescriptionTooLong")
    ELSE IF IsFault(r, 606) THEN Err("ActionNotAuthorized")
    ELSE IF IsFault(r, 725) THEN Err("OnlyPermanentLeasesSupported")
    ELSE ErrRequest(r)

\* a retry that reports 718 as the loop's exhaustion
same_port_result_no_ports(r, local_port) ==
    IF r.kind = "Ok" THEN Ok(NoIp, local_port)
    ELSE IF IsFault(r, 606) THEN Err("ActionNotAuthorized")
    ELSE IF IsFault(r, 718) THEN Err("NoPortsAvailable")
    ELSE IF IsFault(r, 725) THEN Err("OnlyPermanentLeasesSupported")
    ELSE ErrRequest(r)

\* add_any_port, the match on the same-port retry (lines 196-202)
same_port_result(r, local_port) ==
    IF r.kind = "Ok" THEN Ok(NoIp, local_port)
    ELSE IF IsFault(r, 606) THEN Err("ActionNotAuthorized")
    ELSE IF IsFault(r, 718) THEN Err("ExternalPortInUse")
    ELSE IF IsFault(r, 725) THEN Err("OnlyPermanentLeasesSupported")
    ELSE ErrRequest(r)

\* a loop that runs one iteration more
loop_has_next_long(a) == a < MaxAttempts + 1

\* a loop that stops one iteration early
loop_has_next_short(a) == a < MaxAttempts - 1

\* the range of the for loop of line 186
loop_has_next(a) == a < MaxAttempts

\* a conversion that keeps the IP step's 606 apart as a request error
ip_error_to_any_port_error_wrapped(res) ==
    IF res.err = "ActionNotAuthorized" THEN ErrRequest(ErrorCode(606, <<"d">>))
    ELSE ErrRequest(res.cause)

\* get_any_address, lines 111-117: the IP step's error as an AddAnyPortError
ip_error_to_any_port_error(res) ==
    IF res.err = "ActionNotAuthorized" THEN Err("ActionNotAuthorized")
    ELSE ErrRequest(res.cause)

\* a composition that forgets the address of the IP step
get_any_address_result_port_only(res, ip) == res

\* get_any_address, lines 118-122: try! on add_any_port, then the socket address
get_any_address_result(res, ip) ==
    IF res.tag = "Ok" THEN Ok(ip, res.val.port) ELSE res

\* the result of the add_any_port part, as the running operation returns it
any_port_return(res) ==
    IF op = "get_any_address" THEN get_any_address_result(res, external_ip) ELSE res

----------------------------------------------------------------------------
(* The state machine *)

Init ==
    /\ gateway = [addr |-> [ip |-> <<192, 168, 0, 1>>, port |-> 5000], control_url |-> "/ctl"]
    /\ pc = "idle"
    /\ op = ""
    /\ args = NoArgs
    /\ stage = ""
    /\ req = NoReq
    /\ attempt = 0
    /\ sent = ZeroSent
    /\ external_ip = NoIp
    /\ response = NoOutcome
    /\ last = NoRequestError
    /\ result = NoResult

\* the caller makes a call on the gateway
Begin(o, a) ==
    /\ pc = "idle"
    /\ op' = o
    /\ args' = a
    /\ attempt' = 0
    /\ external_ip' = NoIp
    /\ response' = NoOutcome
    /\ last' = NoRequestError
    /\ UNCHANGED gateway

\* hand request r to the transport; cnt is the stub's count before it
Send(st, r, cnt) ==
    /\ pc' = "await"
    /\ stage' = st
    /\ req' = r
    /\ sent' = [cnt EXCEPT ![r.action] = @ + 1]
    /\ result' = NoResult

\* return before any request was sent
ReturnEarly(res) ==
    /\ pc' = "done"
    /\ stage' = ""
    /\ req' = NoReq
    /\ sent' = ZeroSent
    /\ result' = res

\* return after the answer to the outstanding request
Return(res) ==
    /\ pc' = "done"
    /\ result' = res
    /\ UNCHANGED <<stage, req, sent>>

\* the outstanding request is answered: the transport's outcome, and what
\* perform_request makes of it
Answered(st, outcome, r) ==
    /\ pc = "await"
    /\ stage = st
    /\ response' = outcome
    /\ last' = r
    /\ UNCHANGED <<gateway, op, args>>

\* get_external_ip (lines 60-64): a private event loop, then the async operation.
\* Core::new() can fail; `?` turns the io::Error into the operation's error
\* before any request is made.
CallGetExternalIp ==
    /\ Begin("get_external_ip", NoArgs)
    /\ \E core_ok \in BOOLEAN :
          IF core_ok
          THEN Send("ip", GetExternalIPAddressRequest, ZeroSent)
          ELSE ReturnEarly(ErrRequest(TransportError("IoError")))

\* get_external_ip_async (lines 67-76)
CallGetExternalIpAsync ==
    /\ Begin("get_external_ip_async", NoArgs)
    /\ Send("ip", GetExternalIPAddressRequest, ZeroSent)

\* get_any_address (lines 104-111): starts with get_external_ip
CallGetAnyAddress ==
    \E m \in MappingProfiles, lp \in LocalPorts :
        /\ Begin("get_any_address", Args(m[1], 0, lp, m[2], m[3]))
        /\ \E core_ok \in BOOLEAN :
              IF core_ok
              THEN Send("ip", GetExternalIPAddressRequest, ZeroSent)
              ELSE ReturnEarly(ErrRequest(TransportError("IoError")))

\* add_any_port up to its first request (lines 145-172)
add_any_port_start(a, cnt, early) ==
    IF add_any_port_check(a.local_addr.port) # ""
    THEN IF early THEN ReturnEarly(Err(add_any_port_check(a.local_addr.port)))
                  ELSE Return(Err(add_any_port_check(a.local_addr.port)))
    ELSE \E p \in SamplePorts : Send("any", AddAnyPortMappingRequest(a, p), cnt)

CallAddAnyPort ==
    \E m \in MappingProfiles, lp \in LocalPorts :
        /\ Begin("add_any_port", Args(m[1], 0, lp, m[2], m[3]))
        /\ add_any_port_start(Args(m[1], 0, lp, m[2], m[3]), ZeroSent, TRUE)

\* add_port up to its request (lines 249-258)
CallAddPort ==
    \E p \in PortMappingProtocol, ep \in ExternalPorts, lp \in LocalPorts,
       ld \in LeaseDurations, d \in Descriptions :
        /\ Begin("add_port", Args(p, ep, lp, ld, d))
        /\ IF add_port_check(ep, lp) # ""
           THEN ReturnEarly(Err(add_port_check(ep, lp)))
           ELSE Send("add", AddPortMappingRequest(Args(p, ep, lp, ld, d), ep), ZeroSent)

\* remove_port up to its request (lines 270-285)
CallRemovePort ==
    \E p \in PortMappingProtocol, ep \in ExternalPorts :
        /\ Begin("remove_port", Args(p, ep, 0, 0, <<>>))
        /\ Send("remove", DeletePortMappingRequest(Args(p, ep, 0, 0, <<>>)), ZeroSent)

\* the GetExternalIPAddress exchange completes (lines 77-90, 111-118)
RespondGetExternalIp ==
    \E outcome \in TransportOutcomes :
        LET r == perform_request_async(outcome, expected_ok("ip"))
            res == get_external_ip_result(r)
        IN  /\ Answered("ip", outcome, r)
            /\ UNCHANGED attempt
            /\ IF op # "get_any_address"
               THEN Return(res) /\ UNCHANGED external_ip
               ELSE IF res.tag # "Ok"
               THEN Return(ip_error_to_any_port_error(res)) /\ UNCHANGED external_ip
               ELSE /\ external_ip' = res.val.ip
                    /\ add_any_port_start(args, sent, FALSE)

\* the fallback loop's next iteration, a iterations having been started (lines 186-210)
loop_step(a) ==
    IF loop_has_next(a)
    THEN /\ attempt' = a + 1
         /\ \E p \in SamplePorts : Send("loop", AddPortMappingRequest(args, p), sent)
    ELSE /\ attempt' = a
         /\ Return(any_port_return(Err("NoPortsAvailable")))

\* the AddAnyPortMapping request is answered (lines 172-185, 212-215)
RespondAddAnyPortMapping ==
    \E outcome \in TransportOutcomes :
        LET r == perform_request(outcome, expected_ok("any"))
        IN  /\ Answered("any", outcome, r)
            /\ UNCHANGED external_ip
            /\ IF native_decision(r) = "fallback"
               THEN loop_step(0)
               ELSE Return(any_port_return(native_result(r))) /\ UNCHANGED attempt

\* an AddPortMapping request of the fallback loop is answered (lines 188-206)
RespondLoopAttempt ==
    \E outcome \in TransportOutcomes :
        LET r == add_port_mapping(outcome)
        IN  /\ Answered("loop", outcome, perform_request(outcome, expected_ok("loop")))
            /\ UNCHANGED external_ip
            /\ CASE loop_decision(r) = "continue" -> loop_step(attempt)
                 [] loop_decision(r) = "same_port" ->
                        /\ Send("retry", AddPortMappingRequest(args, args.local_addr.port), sent)
                        /\ UNCHANGED attempt
                 [] OTHER ->
                        /\ Return(any_port_return(
                               loop_result(r, ParseU16(ReqParam(req, "NewExternalPort")))))
                        /\ UNCHANGED attempt

\* the same-port AddPortMapping request is answered (lines 196-202)
RespondSamePortRetry ==
    \E outcome \in TransportOutcomes :
        LET r == add_port_mapping(outcome)
        IN  /\ Answered("retry", outcome, perform_request(outcome, expected_ok("retry")))
            /\ UNCHANGED <<external_ip, attempt>>
            /\ Return(any_port_return(same_port_result(r, args.local_addr.port)))

\* add_port's request is answered (lines 258-266)
RespondAddPort ==
    \E outcome \in TransportOutcomes :
        LET r == add_port_mapping(outcome)
        IN  /\ Answered("add", outcome, perform_request(outcome, expected_ok("add")))
            /\ UNCHANGED <<external_ip, attempt>>
            /\ Return(add_port_result(r))

\* remove_port's request is answered (lines 285-290)
RespondRemovePort ==
    \E outcome \in TransportOutcomes :
        LET r == perform_request(outcome, expected_ok("remove"))
        IN  /\ Answered("remove", outcome, r)
            /\ UNCHANGED <<external_ip, attempt>>
            /\ Return(remove_port_result(r))

Respond ==
    \/ RespondGetExternalIp
    \/ RespondAddAnyPortMapping
    \/ RespondLoopAttempt
    \/ RespondSamePortRetry
    \/ RespondAddPort
    \/ RespondRemovePort

Next ==
    \/ CallGetExternalIp
    \/ CallGetExternalIpAsync
    \/ CallGetAnyAddress
    \/ CallAddAnyPort
    \/ CallAddPort
    \/ CallRemovePort
    \/ RespondGetExternalIp
    \/ RespondAddAnyPortMapping
    \/ RespondLoopAttempt
    \/ RespondSamePortRetry
    \/ RespondAddPort
    \/ RespondRemovePort

Spec == Init /\ [][Next]_vars

\* every request is eventually answered by the transport
FairSpec == Spec /\ WF_vars(Respond)

\* The two request paths side by side: the same transport outcome and the
\* same success name are given to perform_request and to perform_request_async.
PathStages == {"ip", "any", "add", "remove"}

PathInit ==
    /\ gateway = [addr |-> [ip |-> <<192, 168, 0, 1>>, port |-> 5000], control_url |-> "/ctl"]
    /\ pc = "path"
    /\ op = ""
    /\ args = NoArgs
    /\ stage \in PathStages
    /\ req = NoReq
    /\ attempt = 0
    /\ sent = ZeroSent
    /\ external_ip = NoIp
    /\ response \in TransportOutcomes
    /\ last = NoRequestError
    /\ result = NoResult

\* the blocking path on the outcome (lines 44-48)
PathPerformRequest ==
    /\ pc = "path"
    /\ pc' = "path_blocking"
    /\ op' = "perform_request"
    /\ last' = perform_request(response, expected_ok(stage))
    /\ UNCHANGED <<gateway, args, stage, req, attempt, sent, external_ip, response, result>>

\* the async path on the same outcome (lines 50-57)
PathPerformRequestAsync ==
    /\ pc = "path_blocking"
    /\ pc' = "path_done"
    /\ op' = "perform_request_async"
    /\ result' = [NoResult EXCEPT !.cause = perform_request_async(response, expected_ok(stage))]
    /\ UNCHANGED <<gateway, args, stage, req, attempt, sent, external_ip, response, last>>

PathNext ==
    \/ PathPerformRequest
    \/ PathPerformRequestAsync
    \/ Next

\* the calls of Spec, and next to them the two paths on equal inputs
PathSpec == (Init \/ PathInit) /\ [][PathNext]_vars

----------------------------------------------------------------------------
(* Concurrent calls on one Gateway.  Every call has its own copy of the    *)
(* locals of the operation it runs; the Gateway is borrowed immutably      *)
(* (&self) by all of them.  Each variable holds one value per call; the    *)
(* transport is not instrumented (sent) and get_any_address is left out    *)
(* (external_ip).  The locals attempt and the outstanding request are      *)
(* those of the call; attempt is dropped when the call returns.            *)

Calls == {"c1", "c2"}

ConcOps == {"get_external_ip", "add_port", "add_any_port", "remove_port"}

conc_args(o) ==
    CASE o = "add_port" -> Args("PortMappingProtocol::TCP", 80, 5000, 0, <<"d">>)
      [] o = "add_any_port" -> Args("PortMappingProtocol::UDP", 0, 5000, 3600, <<"d">>)
      [] o = "remove_port" -> Args("PortMappingProtocol::TCP", 80, 0, 0, <<>>)
      [] OTHER -> NoArgs

\* the answers of the router stub in the concurrent runs
ConcDoc(d) ==
    \/ ~d.parses
    \/ /\ d.parses /\ d.hasBody /\ d.fault = "none" /\ d.okName \in OkNames
       /\ d.okText \in {<<>>, <<"1", ".", "2", ".", "3", ".", "4">>, <<"4", "0", "0", "0", "0">>}
    \/ /\ d.parses /\ d.hasBody /\ d.okName = "" /\ d.fault = "UPnPError"
       /\ d.hasCode /\ d.hasDesc /\ d.descText = <<"d">>
       /\ d.codeText \in {T401, T606, T718, T724}

ConcOutcomes ==
    {o \in TransportOutcomes : IF o.ok THEN ConcDoc(o.text) ELSE o.error = "HttpError"}

ConcInit ==
    /\ gateway = [addr |-> [ip |-> <<192, 168, 0, 1>>, port |-> 5000], control_url |-> "/ctl"]
    /\ pc = [c \in Calls |-> "idle"]
    /\ op = [c \in Calls |-> ""]
    /\ args = [c \in Calls |-> NoArgs]
    /\ stage = [c \in Calls |-> ""]
    /\ req = [c \in Calls |-> NoReq]
    /\ attempt = [c \in Calls |-> 0]
    /\ sent = ZeroSent
    /\ external_ip = NoIp
    /\ response = [c \in Calls |-> NoOutcome]
    /\ last = [c \in Calls |-> NoRequestError]
    /\ result = [c \in Calls |-> NoResult]

\* a shared loop counter: the iterations of all calls together
conc_attempt_shared(c) == attempt["c1"] + attempt["c2"]

\* the loop counter call c reads: its own local (line 186)
conc_attempt(c) == attempt[c]

\* call c goes on: only its own locals change
ConcSet(c, new_pc, new_stage, new_req, new_attempt, new_result) ==
    /\ pc' = [pc EXCEPT ![c] = new_pc]
    /\ stage' = [stage EXCEPT ![c] = new_stage]
    /\ req' = [req EXCEPT ![c] = new_req]
    /\ attempt' = [attempt EXCEPT ![c] = new_attempt]
    /\ result' = [result EXCEPT ![c] = new_result]
    /\ UNCHANGED <<gateway, sent, external_ip>>

ConcSend(c, st, r, a) == ConcSet(c, "await", st, r, a, NoResult)

ConcReturn(c, res) == ConcSet(c, "done", stage[c], req[c], 0, res)

\* call c starts one of the operations, up to its first request
ConcCall(c) ==
    /\ pc[c] = "idle"
    /\ \E o \in ConcOps :
          /\ op' = [op EXCEPT ![c] = o]
          /\ args' = [args EXCEPT ![c] = conc_args(o)]
          /\ UNCHANGED <<response, last>>
          /\ CASE o = "get_external_ip" ->
                      \E core_ok \in BOOLEAN :
                          IF core_ok THEN ConcSend(c, "ip", GetExternalIPAddressRequest, 0)
                          ELSE ConcReturn(c, ErrRequest(TransportError("IoError")))
               [] o = "add_port" ->
                      IF add_port_check(conc_args(o).external_port, conc_args(o).local_addr.port) # ""
                      THEN ConcReturn(c, Err(add_port_check(conc_args(o).external_port,
                                                            conc_args(o).local_addr.port)))
                      ELSE ConcSend(c, "add",
                               AddPortMappingRequest(conc_args(o), conc_args(o).external_port), 0)
               [] o = "add_any_port" ->
                      IF add_any_port_check(conc_args(o).local_addr.port) # ""
                      THEN ConcReturn(c, Err(add_any_port_check(conc_args(o).local_addr.port)))
                      ELSE \E p \in SamplePorts :
                               ConcSend(c, "any", AddAnyPortMappingRequest(conc_args(o), p), 0)
               [] OTHER -> ConcSend(c, "remove", DeletePortMappingRequest(conc_args(o)), 0)

\* the next iteration of call c's fallback loop; seen is the counter it reads
ConcLoop(c, own, seen) ==
    IF loop_has_next(seen)
    THEN \E p \in SamplePorts : ConcSend(c, "loop", AddPortMappingRequest(args[c], p), own + 1)
    ELSE ConcReturn(c, Err("NoPortsAvailable"))

\* the outstanding request of call c is answered
ConcRespond(c) ==
    /\ pc[c] = "await"
    /\ \E outcome \in ConcOutcomes :
          LET st == stage[c]
              r == IF st = "ip" THEN perform_request_async(outcome, expected_ok(st))
                   ELSE perform_request(outcome, expected_ok(st))
              m == add_port_mapping(outcome)
          IN  /\ response' = [response EXCEPT ![c] = outcome]
              /\ last' = [last EXCEPT ![c] = r]
              /\ UNCHANGED <<op, args>>
              /\ CASE st = "ip" -> ConcReturn(c, get_external_ip_result(r))
                   [] st = "add" -> ConcReturn(c, add_port_result(m))
                   [] st = "remove" -> ConcReturn(c, remove_port_result(r))
                   [] st = "any" ->
                          IF native_decision(r) = "fallback" THEN ConcLoop(c, 0, 0)
                          ELSE ConcReturn(c, native_result(r))
                   [] st = "loop" ->
                          CASE loop_decision(m) = "continue" ->
                                   ConcLoop(c, attempt[c], conc_attempt(c))
                            [] loop_decision(m) = "same_port" ->
                                   ConcSend(c, "retry",
                                       AddPortMappingRequest(args[c], args[c].local_addr.port),
                                       attempt[c])
                            [] OTHER ->
                                   ConcReturn(c, loop_result(m,
                                       ParseU16(ReqParam(req[c], "NewExternalPort"))))
                   [] OTHER -> ConcReturn(c, same_port_result(m, args[c].local_addr.port))

ConcNext == \E c \in Calls : ConcCall(c) \/ ConcRespond(c)

ConcSpec == ConcInit /\ [][ConcNext]_vars

TypeOK ==
    /\ pc \in {"idle", "await", "done"}
    /\ attempt \in 0..MaxAttempts
    /\ stage \in {"", "ip", "any", "loop", "retry", "add", "remove"}

----------------------------------------------------------------------------
(* Properties *)

Called == pc # "idle"

NoRequestSent == TotalSent(sent) = 0 /\ req = NoReq

\* C1: add_port called with external_port = 0 returns ExternalPortZeroInvalid
\* and hands no request to the transport, whatever the other parameters are
\* (also when the local port is 0 as well).
C1_ExternalPortZero ==
    (Called /\ op = "add_port" /\ args.external_port = 0)
        => (pc = "done" /\ result = Err("ExternalPortZeroInvalid") /\ NoRequestSent)

C1_Witness ==
    /\ pc = "done" /\ op = "add_port"
    /\ args.external_port = 0 /\ args.local_addr.port = 0
    /\ args.protocol = "PortMappingProtocol::UDP" /\ args.lease_duration = 3600
    /\ result = Err("ExternalPortZeroInvalid")

\* C2: add_port with a nonzero external port, and add_any_port, called with a
\* local address whose port is 0 return InternalPortZeroInvalid and hand no
\* request to the transport.
C2_InternalPortZero ==
    (/\ Called
     /\ (op = "add_port" /\ args.external_port # 0) \/ op = "add_any_port"
     /\ args.local_addr.port = 0)
        => (pc = "done" /\ result = Err("InternalPortZeroInvalid") /\ NoRequestSent)

C2_Witness ==
    /\ pc = "done" /\ op = "add_port"
    /\ args.external_port # 0 /\ args.local_addr.port = 0
    /\ result = Err("InternalPortZeroInvalid")
    /\ TotalSent(sent) = 0

\* the external port carried by the last request
SentExternalPort(r) == ParseU16(ReqParam(r, "NewExternalPort"))

\* the port a successful any-port call returned
ReturnedPort(res) == res.val.port

AwaitingIn(st) == pc = "await" /\ stage = st

\* C3: when AddAnyPortMapping is answered with fault 401 the fallback loop
\* starts with a first random candidate; a 718 answer to one of the first 19
\* candidates is followed by the next candidate; a success answer to the k+1-th
\* candidate (all earlier ones answered 718) ends the call with Ok of that
\* candidate's port; a 718 answer to the 20th ends it with NoPortsAvailable
\* after exactly 20 AddPortMapping requests.
C3_Step ==
    /\ (AwaitingIn("any") /\ IsFault(last', 401))
           => /\ pc' = "await" /\ stage' = "loop" /\ attempt' = 1
              /\ req'.action = "AddPortMapping"
              /\ SentExternalPort(req') \in PortLow..(PortHigh - 1)
              /\ sent'["AddPortMapping"] = 1
    /\ (AwaitingIn("loop") /\ IsFault(last', 718) /\ attempt < 20)
           => /\ pc' = "await" /\ stage' = "loop" /\ attempt' = attempt + 1
              /\ req'.action = "AddPortMapping"
              /\ sent'["AddPortMapping"] = attempt + 1
    /\ (AwaitingIn("loop") /\ last'.kind = "Ok")
           => /\ pc' = "done" /\ result'.tag = "Ok"
              /\ ReturnedPort(result') = SentExternalPort(req)
              /\ sent'["AddPortMapping"] = attempt
    /\ (AwaitingIn("loop") /\ IsFault(last', 718) /\ attempt = 20)
           => /\ pc' = "done" /\ result' = Err("NoPortsAvailable")
              /\ sent'["AddPortMapping"] = 20

\* the k+1-th candidate is outstanding only after k answers of 718
C3_History ==
    AwaitingIn("loop")
        => /\ attempt \in 1..20
           /\ sent["AddPortMapping"] = attempt
           /\ IF attempt = 1 THEN IsFault(last, 401) ELSE IsFault(last, 718)

C3_Fallback == [][C3_Step]_vars /\ []C3_History

\* 19 candidates answered 718, the 20th answered with success
C3_Witness ==
    /\ pc = "done" /\ stage = "loop" /\ attempt = 20
    /\ last.kind = "Ok" /\ result.tag = "Ok"
    /\ ReturnedPort(result) = SentExternalPort(req)

\* C4: in the fallback loop a fault 724 on any attempt is followed by exactly
\* one more AddPortMapping request, whose external port is the caller's
\* internal port; whatever the answer to that request, the call then returns
\* and no further request is sent.
C4_Step ==
    /\ (AwaitingIn("loop") /\ IsFault(last', 724))
           => /\ pc' = "await" /\ stage' = "retry"
              /\ req'.action = "AddPortMapping"
              /\ SentExternalPort(req') = args.local_addr.port
              /\ ReqParam(req', "NewInternalPort") = ReqParam(req', "NewExternalPort")
              /\ TotalSent(sent') = TotalSent(sent) + 1
              /\ attempt' = attempt
    /\ AwaitingIn("retry")
           => /\ pc' = "done" /\ sent' = sent /\ req' = req
    /\ (stage' = "retry" /\ stage # "retry") => (AwaitingIn("loop") /\ IsFault(last', 724))

C4_SamePortRetry == [][C4_Step]_vars

\* a 724 on the 20th attempt, the retry answered with 724 again
C4_Witness ==
    /\ pc = "done" /\ stage = "retry" /\ attempt = 20
    /\ IsFault(last, 724)
    /\ sent["AddPortMapping"] = 21

\* a response text with a complete fault of the given errorCode text and no
\* success element of the given name
FaultDoc(outcome, code_text, ok) ==
    /\ outcome.ok /\ outcome.text.parses /\ outcome.text.hasBody
    /\ outcome.text.okName # ok
    /\ outcome.text.fault = "UPnPError"
    /\ outcome.text.hasCode /\ outcome.text.codeText = code_text
    /\ outcome.text.hasDesc /\ outcome.text.descText # <<>>

SingleRequestOps == {"get_external_ip", "get_external_ip_async", "add_port", "remove_port"}

\* C5: in get_external_ip (blocking and async), add_port and remove_port a
\* well-formed fault response with errorCode 606 yields the operation's
\* ActionNotAuthorized; none of them returns RequestError(ErrorCode(606, _)).
C5_NotAuthorized ==
    (pc = "done" /\ op \in SingleRequestOps)
        => /\ (FaultDoc(response, T606, expected_ok(stage)) \/ IsFault(last, 606))
                  => result = Err("ActionNotAuthorized")
           /\ ~(result.err = "RequestError" /\ IsFault(result.cause, 606))

C5_Witness ==
    /\ pc = "done" /\ op = "get_external_ip"
    /\ FaultDoc(response, T606, "GetExternalIPAddressResponse")
    /\ result = Err("ActionNotAuthorized")

\* C6: add_port with nonzero ports sends exactly one AddPortMapping request
\* and returns by the table: success -> Ok; 605 -> DescriptionTooLong; 606 ->
\* ActionNotAuthorized; 718 -> PortInUse; 724 -> SamePortValuesRequired; 725 ->
\* OnlyPermanentLeasesSupported; any other fault, a transport error or an
\* invalid response -> RequestError carrying that error unchanged.
C6_Table ==
    IF last.kind = "Ok" THEN result = Ok(NoIp, None)
    ELSE IF IsFault(last, 605) THEN result = Err("DescriptionTooLong")
    ELSE IF IsFault(last, 606) THEN result = Err("ActionNotAuthorized")
    ELSE IF IsFault(last, 718) THEN result = Err("PortInUse")
    ELSE IF IsFault(last, 724) THEN result = Err("SamePortValuesRequired")
    ELSE IF IsFault(last, 725) THEN result = Err("OnlyPermanentLeasesSupported")
    ELSE /\ result = ErrRequest(last)
         /\ ~response.ok => last = TransportError(response.error)
         /\ last.kind = "InvalidResponse" => last.text = response.text
         /\ last.kind = "ErrorCode" =>
                /\ FaultDoc(response, response.text.codeText, "AddPortMappingResponse")
                /\ last.desc = response.text.descText

OnlyOneAddPortMapping == sent = [ZeroSent EXCEPT !["AddPortMapping"] = 1]

C6_AddPort ==
    (Called /\ op = "add_port" /\ args.external_port # 0 /\ args.local_addr.port # 0)
        => /\ OnlyOneAddPortMapping
           /\ req.action = "AddPortMapping"
           /\ SentExternalPort(req) = args.external_port
           /\ pc = "done" => C6_Table

\* an unmapped fault is passed through with its code and description
C6_Witness ==
    /\ pc = "done" /\ op = "add_port"
    /\ FaultDoc(response, T501, "AddPortMappingResponse")
    /\ result = ErrRequest(ErrorCode(501, response.text.descText))
    /\ OnlyOneAddPortMapping

\* the Body of a response text has a child of the given name
HasSuccess(outcome, ok) ==
    outcome.ok /\ outcome.text.parses /\ outcome.text.hasBody /\ outcome.text.okName = ok

\* C7: parse_response looks for the success element before it looks for a
\* fault: a Body with a child of the expected success name gives Ok(original
\* text, that element), also when the Body has a Fault (well-formed or not);
\* a fault is reported only when the success element is absent.
C7_Step ==
    pc = "await"
        => /\ HasSuccess(response', expected_ok(stage))
                  => last' = ReqOk(response'.text, OkElement(response'.text))
           /\ last'.kind = "ErrorCode" => ~HasSuccess(response', expected_ok(stage))

C7_SuccessFirst == [][C7_Step]_vars

\* a success element next to a well-formed fault 718, in the fallback loop
C7_Witness ==
    /\ pc = "done" /\ stage = "loop"
    /\ HasSuccess(response, "AddPortMappingResponse")
    /\ response.text.fault = "UPnPError" /\ response.text.codeText = T718
    /\ last = ReqOk(response.text, OkElement(response.text))
    /\ result.tag = "Ok"

AnyPortOps == {"add_any_port", "get_any_address"}

MappingRequestsSent == sent["AddAnyPortMapping"] + sent["AddPortMapping"]

\* C8: a call of add_any_port sends at most 22 requests: one
\* AddAnyPortMapping, at most 20 AddPortMapping requests with a random
\* candidate, and at most one same-port AddPortMapping request after a 724,
\* which does not count as one of the 20; and once every request is answered
\* the call returns.
C8_Bound ==
    (Called /\ op \in AnyPortOps)
        => /\ sent["AddAnyPortMapping"] <= 1
           /\ attempt <= 20
           /\ sent["AddPortMapping"] = attempt + (IF stage = "retry" THEN 1 ELSE 0)
           /\ MappingRequestsSent <= 22
           /\ op = "add_any_port" => TotalSent(sent) = MappingRequestsSent

C8_Terminates == (pc = "await" /\ op \in AnyPortOps) ~> (pc = "done")

C8_BoundedRequests == []C8_Bound /\ C8_Terminates

\* 22 requests: AddAnyPortMapping, 20 candidates, the same-port retry
C8_Witness ==
    /\ pc = "done" /\ op = "add_any_port" /\ stage = "retry"
    /\ sent["AddAnyPortMapping"] = 1 /\ attempt = 20 /\ sent["AddPortMapping"] = 21
    /\ TotalSent(sent) = 22

NoRetryKinds == {"HttpError", "IoError", "InvalidResponse"}

\* C9: in every operation and at every stage of add_any_port, a request that
\* ends in a transport error or an InvalidResponse is the last request of the
\* call, and the call returns that error as RequestError.
C9_Step ==
    pc = "await"
        => /\ ~response'.ok => last' = TransportError(response'.error)
           /\ last'.kind \in NoRetryKinds
                  => /\ pc' = "done"
                     /\ sent' = sent /\ req' = req
                     /\ result' = ErrRequest(last')

C9_NoRetry == [][C9_Step]_vars

\* an invalid response to a later candidate of the fallback loop
C9_Witness ==
    /\ pc = "done" /\ stage = "loop" /\ attempt > 1
    /\ response.ok /\ last = InvalidResponse(response.text)
    /\ result = ErrRequest(last)

\* C10: the fallback loop is entered exactly when AddAnyPortMapping is
\* answered with fault 401.  Any other answer ends the call with that one
\* mapping request: success with a parseable NewReservedPort -> Ok(that port),
\* success without one -> InvalidResponse, 605 -> DescriptionTooLong, 606 ->
\* ActionNotAuthorized, 728 -> NoPortsAvailable, any other fault or error ->
\* RequestError carrying it.
C10_Table ==
    IF last'.kind = "Ok"
    THEN IF /\ response'.text.okChild = "NewReservedPort"
            /\ ParseU16(response'.text.okText) # None
         THEN /\ result'.tag = "Ok"
              /\ ReturnedPort(result') = ParseU16(response'.text.okText)
         ELSE result' = ErrRequest(InvalidResponse(response'.text))
    ELSE IF IsFault(last', 605) THEN result' = Err("DescriptionTooLong")
    ELSE IF IsFault(last', 606) THEN result' = Err("ActionNotAuthorized")
    ELSE IF IsFault(last', 728) THEN result' = Err("NoPortsAvailable")
    ELSE result' = ErrRequest(last')

C10_Step ==
    /\ AwaitingIn("any")
           => IF IsFault(last', 401)
              THEN pc' = "await" /\ stage' = "loop"
              ELSE /\ pc' = "done" /\ stage' = "any"
                   /\ sent' = sent /\ MappingRequestsSent = 1
                   /\ C10_Table
    /\ (stage' = "loop" /\ stage # "loop") => (AwaitingIn("any") /\ IsFault(last', 401))

C10_FallbackIff401 == [][C10_Step]_vars

\* 728 to AddAnyPortMapping: NoPortsAvailable after one request
C10_Witness ==
    /\ pc = "done" /\ op = "add_any_port" /\ stage = "any"
    /\ FaultDoc(response, T728, "AddAnyPortMappingResponse")
    /\ result = Err("NoPortsAvailable")
    /\ TotalSent(sent) = 1

\* the address a GetExternalIPAddress response carries, NoIp if it has none
ResponseIp(outcome) ==
    IF /\ HasSuccess(outcome, "GetExternalIPAddressResponse")
       /\ outcome.text.okChild = "NewExternalIPAddress"
    THEN ParseIpv4(outcome.text.okText)
    ELSE NoIp

\* C11: get_any_address does the GetExternalIPAddress exchange first; a
\* mapping request is sent only after that exchange gave an IPv4 address; if
\* the IP step fails the call returns that failure and sends no mapping
\* request; if both steps succeed the result is (external ip, allocated
\* port); with a local port of 0 the IP exchange is done before
\* InternalPortZeroInvalid is returned.
C11_Inv ==
    (Called /\ op = "get_any_address")
        => /\ MappingRequestsSent > 0
                  => (sent["GetExternalIPAddress"] = 1 /\ external_ip # NoIp)
           /\ (pc = "done" /\ result.tag = "Ok")
                  => /\ external_ip # NoIp /\ result.val.ip = external_ip
                     /\ result.val.port \in 0..U16Max
                     /\ MappingRequestsSent >= 1
           /\ (pc = "done" /\ external_ip = NoIp)
                  => (result.tag = "Err" /\ MappingRequestsSent = 0)

C11_Step ==
    (AwaitingIn("ip") /\ op = "get_any_address")
        => IF ResponseIp(response') # NoIp
           THEN /\ external_ip' = ResponseIp(response')
                /\ IF args.local_addr.port = 0
                   THEN /\ pc' = "done" /\ result' = Err("InternalPortZeroInvalid")
                        /\ sent' = [ZeroSent EXCEPT !["GetExternalIPAddress"] = 1]
                   ELSE /\ pc' = "await" /\ req'.action = "AddAnyPortMapping"
                        /\ MappingRequestsSent' = 1
           ELSE /\ pc' = "done" /\ sent' = sent /\ external_ip' = NoIp
                /\ result' = IF IsFault(last', 606) THEN Err("ActionNotAuthorized")
                             ELSE IF last'.kind = "Ok"
                             THEN ErrRequest(InvalidResponse(response'.text))
                             ELSE ErrRequest(last')

C11_IpFirst == []C11_Inv /\ [][C11_Step]_vars

\* both steps succeeded, the port through the fallback loop
C11_Witness ==
    /\ pc = "done" /\ op = "get_any_address" /\ stage = "loop"
    /\ result.tag = "Ok"
    /\ result.val = [ip |-> <<1, 2, 3, 4>>, port |-> SentExternalPort(req)]
    /\ sent["GetExternalIPAddress"] = 1

\* what add_any_port returns when one of its own requests is answered with 606
AllocatorResultsOn606 ==
    {native_result(ErrorCode(606, d)) : d \in DescTexts \ {<<>>}}
    \cup {loop_result(ErrorCode(606, d), p) : d \in DescTexts \ {<<>>}, p \in SamplePorts}
    \cup {same_port_result(ErrorCode(606, d), p) : d \in DescTexts \ {<<>>}, p \in LocalPorts}

IpStepNotAuthorized ==
    pc = "done" /\ op = "get_any_address" /\ stage = "ip" /\ IsFault(last, 606)

AllocatorNotAuthorized ==
    /\ pc = "done" /\ op = "get_any_address" /\ stage \in {"any", "loop", "retry"}
    /\ IsFault(last, 606)

\* C12 as claimed: the error get_any_address returns for a 606 of the IP step
\* is not an error the allocator returns for a 606 of its own, so the caller
\* can tell the two apart.
C12_Distinct == IpStepNotAuthorized => result \notin AllocatorResultsOn606

\* C12, amended: a 606 of the IP step is returned as the named
\* ActionNotAuthorized error, not as RequestError(ErrorCode(606, _)); a 606 of
\* the allocator is returned as the same ActionNotAuthorized value.
C12_SameVariant ==
    /\ IpStepNotAuthorized
           => /\ result = Err("ActionNotAuthorized")
              /\ result \in AllocatorResultsOn606
              /\ MappingRequestsSent = 0
    /\ AllocatorNotAuthorized => result = Err("ActionNotAuthorized")

C12_Witness ==
    /\ IpStepNotAuthorized
    /\ FaultDoc(response, T606, "GetExternalIPAddressResponse")
    /\ result = Err("ActionNotAuthorized")

\* what a GetExternalIPAddress exchange with the given outcome comes to
ClassifyIp(outcome) ==
    IF ~outcome.ok THEN ErrRequest(TransportError(outcome.error))
    ELSE IF HasSuccess(outcome, "GetExternalIPAddressResponse")
    THEN IF ResponseIp(outcome) # NoIp THEN Ok(ResponseIp(outcome), None)
         ELSE ErrRequest(InvalidResponse(outcome.text))
    ELSE IF /\ FaultDoc(outcome, outcome.text.codeText, "GetExternalIPAddressResponse")
            /\ ParseU16(outcome.text.codeText) # None
    THEN IF ParseU16(outcome.text.codeText) = 606 THEN Err("ActionNotAuthorized")
         ELSE ErrRequest(ErrorCode(ParseU16(outcome.text.codeText), outcome.text.descText))
    ELSE ErrRequest(InvalidResponse(outcome.text))

Entities ==
    {<<<<"&", "a", "m", "p", ";">>, "&">>, <<<<"&", "l", "t", ";">>, "<">>,
     <<<<"&", "g", "t", ";">>, ">">>}

StartsWith(t, p) == Len(t) >= Len(p) /\ SubSeq(t, 1, Len(p)) = p

RECURSIVE XmlTextDecode(_, _)
XmlTextDecode(t, acc) ==
    IF t = <<>> THEN [ok |-> TRUE, text |-> acc]
    ELSE IF Head(t) = "<" THEN [ok |-> FALSE, text |-> <<>>]
    ELSE IF Head(t) = "&"
    THEN IF \E e \in Entities : StartsWith(t, e[1])
         THEN LET e == CHOOSE x \in Entities : StartsWith(t, x[1])
              IN  XmlTextDecode(SubSeq(t, Len(e[1]) + 1, Len(t)), Append(acc, e[2]))
         ELSE [ok |-> FALSE, text |-> <<>>]
    ELSE XmlTextDecode(Tail(t), Append(acc, Head(t)))

MappingParamOrder ==
    <<"NewProtocol", "NewExternalPort", "NewInternalClient", "NewInternalPort",
      "NewLeaseDuration", "NewPortMappingDescription", "NewEnabled", "NewRemoteHost">>

IsMappingRequest(r) == r.action \in {"AddPortMapping", "AddAnyPortMapping"}

\* C14: every AddPortMapping / AddAnyPortMapping envelope is well-formed and
\* its NewPortMappingDescription element, read back, is the caller's
\* description unchanged, also for a description with '&' or '<'; the
\* parameter elements are in the action's order.
C14_RoundTrip ==
    IsMappingRequest(req)
        => /\ \A i \in 1..Len(req.params) : XmlTextDecode(req.params[i][2], <<>>).ok
           /\ XmlTextDecode(ReqParam(req, "NewPortMappingDescription"), <<>>)
                  = [ok |-> TRUE, text |-> args.description]
           /\ [i \in 1..Len(req.params) |-> req.params[i][1]] = MappingParamOrder

\* the locals of call c
Local(c) ==
    <<pc[c], op[c], args[c], stage[c], req[c], attempt[c], response[c], last[c], result[c]>>

\* what call c returns, from its own stage, request, parameters and answer
OwnResult(c) ==
    CASE stage[c] = "ip" -> ClassifyIp(response'[c])
      [] stage[c] = "add" -> add_port_result(last'[c])
      [] stage[c] = "remove" -> remove_port_result(last'[c])
      [] stage[c] = "any" -> native_result(last'[c])
      [] stage[c] = "loop" -> loop_result(last'[c], SentExternalPort(req[c]))
      [] OTHER -> same_port_result(last'[c], args[c].local_addr.port)

\* the step of call c on an answer, from its own locals and that answer alone
OwnStep(c) ==
    /\ last'[c] = perform_request(response'[c], expected_ok(stage[c]))
    /\ op'[c] = op[c] /\ args'[c] = args[c]
    /\ CASE stage[c] = "any" /\ IsFault(last'[c], 401) ->
                pc'[c] = "await" /\ stage'[c] = "loop" /\ attempt'[c] = 1
         [] stage[c] = "loop" /\ IsFault(last'[c], 718) ->
                IF attempt[c] < 20
                THEN pc'[c] = "await" /\ stage'[c] = "loop" /\ attempt'[c] = attempt[c] + 1
                ELSE pc'[c] = "done" /\ result'[c] = Err("NoPortsAvailable")
         [] stage[c] = "loop" /\ IsFault(last'[c], 724) ->
                /\ pc'[c] = "await" /\ stage'[c] = "retry"
                /\ SentExternalPort(req'[c]) = args[c].local_addr.port
         [] OTHER -> pc'[c] = "done" /\ result'[c] = OwnResult(c)

\* C15: with several calls running on one Gateway in any interleaving, a step
\* changes the locals of one call only, never the Gateway, and what a call
\* does on an answer - its next request or its result - follows from its own
\* locals and the answer to its own request.
C15_Step ==
    /\ gateway' = gateway
    /\ \A c \in Calls, d \in Calls :
           (c # d /\ Local(c)' # Local(c)) => Local(d)' = Local(d)
    /\ \A c \in Calls : (pc[c] = "await" /\ Local(c)' # Local(c)) => OwnStep(c)

C15_Independent == [][C15_Step]_vars

\* one call returned NoPortsAvailable while the other is in the middle of its loop
C15_Witness ==
    /\ pc["c1"] = "done" /\ stage["c1"] = "loop" /\ result["c1"] = Err("NoPortsAvailable")
    /\ pc["c2"] = "await" /\ stage["c2"] = "loop" /\ attempt["c2"] = 7

LoopFault(code_set) ==
    AwaitingIn("loop") /\ last'.kind = "ErrorCode" /\ last'.code \in code_set

EndsHere == pc' = "done" /\ sent' = sent /\ req' = req

\* C16 as claimed: in the fallback loop an attempt answered with a fault
\* other than 718 ends the call at once, with no further request.
C16_Only718 == [][LoopFault(0..U16Max \ {718}) => EndsHere]_vars

\* C16, amended: in the fallback loop an attempt answered with a fault other
\* than 718 and 724 ends the call at once, with no further request; 718 is
\* the only fault followed by another random candidate; 724 is followed by
\* the one same-port request.
C16_Step ==
    /\ LoopFault(0..U16Max \ {718, 724}) => EndsHere
    /\ (LoopFault({718}) /\ attempt < 20)
           => /\ pc' = "await" /\ stage' = "loop"
              /\ SentExternalPort(req') \in PortLow..(PortHigh - 1)
              /\ TotalSent(sent') = TotalSent(sent) + 1
    /\ LoopFault({724})
           => /\ pc' = "await" /\ stage' = "retry"
              /\ SentExternalPort(req') = args.local_addr.port
              /\ TotalSent(sent') = TotalSent(sent) + 1
    /\ (AwaitingIn("loop") /\ stage' = "loop" /\ pc' = "await") => LoopFault({718})

C16_Only718Or724 == [][C16_Step]_vars

\* fault 725 on a later attempt ends the call
C16_Witness ==
    /\ pc = "done" /\ stage = "loop" /\ attempt = 3
    /\ IsFault(last, 725)
    /\ result = Err("OnlyPermanentLeasesSupported")
    /\ sent["AddPortMapping"] = 3

AllocatorStages == {"any", "loop", "retry"}

\* C17: when add_any_port returns Ok(p) the last request was answered with its
\* success element and p is the port of that mapping: NewReservedPort of the
\* response on the native path (not the candidate sent as a hint), the
\* external port of the successful AddPortMapping request in the loop (within
\* 32768..65534), the caller's internal port after the same-port retry.  No
\* request follows a success answer, and every random candidate sent is
\* within 32768..65534.
C17_Inv ==
    (Called /\ op \in AnyPortOps /\ stage \in AllocatorStages)
        => /\ (pc = "done" /\ result.tag = "Ok")
                  => /\ HasSuccess(response, expected_ok(stage))
                     /\ CASE stage = "any" ->
                                 /\ response.text.okChild = "NewReservedPort"
                                 /\ ReturnedPort(result) = ParseU16(response.text.okText)
                                 /\ ReturnedPort(result) # None
                          [] stage = "loop" ->
                                 /\ ReturnedPort(result) = SentExternalPort(req)
                                 /\ ReturnedPort(result) \in 32768..65534
                          [] OTHER ->
                                 /\ ReturnedPort(result) = args.local_addr.port
                                 /\ SentExternalPort(req) = args.local_addr.port
           /\ stage \in {"any", "loop"} => SentExternalPort(req) \in 32768..65534

C17_Step ==
    (pc = "await" /\ stage \in AllocatorStages /\ HasSuccess(response', expected_ok(stage)))
        => (pc' = "done" /\ sent' = sent /\ req' = req)

C17_ConfirmedPort == []C17_Inv /\ [][C17_Step]_vars

\* the router reserved another port than the hinted candidate
C17_Witness ==
    /\ pc = "done" /\ op = "add_any_port" /\ stage = "any"
    /\ result.tag = "Ok" /\ ReturnedPort(result) = 80
    /\ SentExternalPort(req) = 65534

\* C18: the answer to the same-port retry ends the call, by a table of its
\* own: success -> Ok(internal port); 606 -> ActionNotAuthorized; 718 ->
\* ExternalPortInUse; 725 -> OnlyPermanentLeasesSupported; anything else,
\* a second 724 and fault 605 included, -> RequestError carrying it unchanged.
C18_Table ==
    IF last'.kind = "Ok"
    THEN result'.tag = "Ok" /\ ReturnedPort(result') = args.local_addr.port
    ELSE IF IsFault(last', 606) THEN result' = Err("ActionNotAuthorized")
    ELSE IF IsFault(last', 718) THEN result' = Err("ExternalPortInUse")
    ELSE IF IsFault(last', 725) THEN result' = Err("OnlyPermanentLeasesSupported")
    ELSE result' = ErrRequest(last')

C18_Step ==
    AwaitingIn("retry") => (pc' = "done" /\ sent' = sent /\ req' = req /\ C18_Table)

C18_RetryTable == [][C18_Step]_vars

\* fault 605 to the retry is passed through
C18_Witness ==
    /\ pc = "done" /\ stage = "retry"
    /\ FaultDoc(response, T605, "AddPortMappingResponse")
    /\ result = ErrRequest(ErrorCode(605, response.text.descText))

\* C19: fault 728 gives NoPortsAvailable when it answers AddAnyPortMapping,
\* but RequestError(ErrorCode(728, description)) when it answers an
\* AddPortMapping request of the fallback loop or the same-port retry; in the
\* fallback NoPortsAvailable is returned only after the 20th 718 in a row.
C19_Step ==
    /\ (AwaitingIn("any") /\ IsFault(last', 728))
           => (pc' = "done" /\ result' = Err("NoPortsAvailable"))
    /\ (pc = "await" /\ stage \in {"loop", "retry"} /\ IsFault(last', 728))
           => /\ pc' = "done"
              /\ result' = ErrRequest(ErrorCode(728, response'.text.descText))
    /\ (pc = "await" /\ stage \in {"loop", "retry"} /\ result' = Err("NoPortsAvailable"))
           => /\ stage = "loop" /\ attempt = 20 /\ sent["AddPortMapping"] = 20
              /\ IsFault(last', 718)
              /\ attempt > 1 => IsFault(last, 718)

C19_Asymmetric728 == [][C19_Step]_vars

\* 728 inside the loop is passed through
C19_Witness ==
    /\ pc = "done" /\ stage = "loop" /\ attempt = 2
    /\ FaultDoc(response, T728, "AddPortMappingResponse")
    /\ result = ErrRequest(ErrorCode(728, <<"d">>))

\* the value of a text of decimal digits
RECURSIVE DecimalValue(_)
DecimalValue(t) ==
    IF t = <<>> THEN 0
    ELSE 10 * DecimalValue(SubSeq(t, 1, Len(t) - 1)) + DigitVal(t[Len(t)])

\* the text is an integer within 0..65535 (an optional '+', then digits)
IsU16Text(t) ==
    LET ds == IF t # <<>> /\ Head(t) = "+" THEN Tail(t) ELSE t
    IN  /\ ds # <<>>
        /\ \A i \in 1..Len(ds) : IsDigit(ds[i])
        /\ DecimalValue(ds) <= 65535

U16TextValue(t) == IF Head(t) = "+" THEN DecimalValue(Tail(t)) ELSE DecimalValue(t)

CompleteFault(d) ==
    /\ d.parses /\ d.hasBody /\ d.fault = "UPnPError"
    /\ d.hasCode /\ IsU16Text(d.codeText)
    /\ d.hasDesc /\ d.descText # <<>>

\* C20: a response without the expected success element gives
\* ErrorCode(code, description) exactly when Body/Fault/detail/UPnPError has an
\* errorCode whose text is an integer within 0..65535 and an errorDescription
\* with text; otherwise it gives InvalidResponse with the response text
\* unchanged, and the call returns that as RequestError, never as a named
\* outcome of the action.
C20_Step ==
    (pc = "await" /\ response'.ok /\ ~HasSuccess(response', expected_ok(stage)))
        => IF CompleteFault(response'.text)
           THEN last' = ErrorCode(U16TextValue(response'.text.codeText),
                                  response'.text.descText)
           ELSE /\ last' = InvalidResponse(response'.text)
                /\ pc' = "done"
                /\ result' = ErrRequest(InvalidResponse(response'.text))

C20_FaultParse == [][C20_Step]_vars

\* an errorCode above 65535 whose low 16 bits are 606
C20_Witness ==
    /\ pc = "done" /\ stage = "add"
    /\ response.ok /\ response.text.fault = "UPnPError"
    /\ response.text.codeText = <<"6", "6", "1", "4", "2">>
    /\ result = ErrRequest(InvalidResponse(response.text))

====
